---------------------------- MODULE Spec2Model ----------------------------
(* A model of src/weather.py: the Open-Meteo client made of                *)
(* fetch_daily_mean_temperature, geocode_city, compute_stats and main.     *)
(*                                                                         *)
(* Conventions.                                                            *)
(*  - A Python value that may be None (an absent or null JSON key, an      *)
(*    option that was not given) is a sequence of length <= 1: None is     *)
(*    << >> and Some(x) is << x >>.                                        *)
(*  - Temperatures are integers in tenths of a degree Celsius.  The input  *)
(*    temperatures are whole odd degrees (19.0, 21.0), so that every sum   *)
(*    of two of them is even and (mx + mn) / 2.0 is exact, as it is in     *)
(*    binary floating point for these values.                              *)
(*  - Fahrenheit values are in tenths of a degree Fahrenheit.              *)
(*  - The start/end dates are the argparse defaults; date labels are the   *)
(*    day numbers 1, 2, ... of the requested range.                        *)
EXTENDS Integers, Sequences, FiniteSets, TLC

VARIABLES
    pc,         \* position of the calling process: idle / resolve / fetch / exited (main), returned / stats (direct calls)
    args,       \* argparse namespace of the running main: city, lat, lon, no_cache
    geo,        \* geocoding of the current run: response received and location returned
    loc,        \* (lat, lon) handed to fetch_daily_mean_temperature, None before the call
    resp,       \* response the weather GET of the current call received
    ret,        \* value fetch_daily_mean_temperature returned, None if it has not returned
    exc,        \* exception fetch_daily_mean_temperature raised, "none" otherwise
    stats,      \* dict returned by compute_stats, None if it was not called
    status,     \* value main returned, None if it has not returned
    raised,     \* exception that left main uncaught, "none" otherwise
    stdout,     \* lines printed to sys.stdout by the current run
    stderr,     \* lines printed to sys.stderr by the current run
    installed,  \* requests_cache.install_cache has patched requests in this process
    cache,      \* the openmeteo_cache store: request key -> expiry time
    now,        \* wall clock, seconds
    lastGet     \* how the weather GET of the current call was served

vars == << pc, args, geo, loc, resp, ret, exc, stats, status, raised,
           stdout, stderr, installed, cache, now, lastGet >>

---------------------------------------------------------------------------
(* Bounds *)

\* longest temperature / date array of a response, for the direct calls
MaxLen == 2
\* number of times the clock advances by one expiry window
MaxTicks == 1

---------------------------------------------------------------------------
(* Python values *)

None == << >>
Some(x) == << x >>
Val(o) == o[1]

\* truthiness of an optional str: None and "" are falsy
TruthyStr(o) == o # None /\ Val(o) # ""

\* "not x" for an optional list: None and [] are falsy
FalsyNoneOnly(o) == o = None
Falsy(o) == o = None \/ Val(o) = << >>

Min(a, b) == IF a <= b THEN a ELSE b

SeqsUpTo(S, n) == UNION { [1..k -> S] : k \in 0..n }

---------------------------------------------------------------------------
(* Constants of the program *)

\* requests_cache.install_cache(..., expire_after=300)
ExpireAfter == 300
\* (arr > 20), in tenths of a degree
Threshold == 200
\* resp.status_code != 200
HttpOk == 200

RequestFailed == "RuntimeError: Open-Meteo request failed"
MissingData == "RuntimeError: No daily temperature data returned from Open-Meteo"
GeocodeFailed == "RuntimeError: Geocoding request failed"
NoResults == "RuntimeError: No geocoding results for city"

---------------------------------------------------------------------------
(* The collaborators: what the two endpoints can answer *)

\* daily temperatures of the upstream API, tenths of a degree; null is possible
Temps == { 190, 210 }
TempItems == { None } \cup { Some(t) : t \in Temps }

ConnError == [ net |-> "error", status |-> 0, json |-> FALSE,
               tmax |-> None, tmin |-> None, time |-> None ]
HttpError == [ net |-> "ok", status |-> 500, json |-> FALSE,
               tmax |-> None, tmin |-> None, time |-> None ]
BadJson == [ net |-> "ok", status |-> HttpOk, json |-> FALSE,
             tmax |-> None, tmin |-> None, time |-> None ]

DateLabels(n) == { [ i \in 1..k |-> i ] : k \in 0..n }

\* a 200 response with a JSON object; each field is daily.get(key)
Bodies(arrays, dates) ==
    [ net : { "ok" }, status : { HttpOk }, json : { TRUE },
      tmax : arrays, tmin : arrays, time : dates ]

OptionOf(S) == { None } \cup { Some(s) : s \in S }

\* every response with arrays of at most n entries
Responses(n) ==
    { ConnError, HttpError, BadJson }
      \cup Bodies(OptionOf(SeqsUpTo(TempItems, n)), OptionOf(DateLabels(n)))

\* the responses main is run against
MainArrays ==
    OptionOf({ << >>, << Some(190) >>, << Some(210), Some(190) >>, << Some(210), None >> })
MainResponses ==
    { ConnError, HttpError, BadJson } \cup Bodies(MainArrays, OptionOf(DateLabels(2)))

\* the coordinates the command line supplies and those the geocoder knows
Supplied == << 1, 1 >>
Geocoded == << 2, 2 >>
Locs == { Supplied, Geocoded }
Cities == { "London" }

GeoConnError == [ net |-> "error", status |-> 0, results |-> None ]
GeoResponses ==
    { GeoConnError, [ net |-> "ok", status |-> 500, results |-> None ] }
      \cup [ net : { "ok" }, status : { HttpOk },
             results : { None, Some(<< >>), Some(<< Geocoded >>) } ]

ArgSets ==
    [ city : { None, Some(""), Some("London") },
      lat : { None, Some(Supplied[1]) },
      lon : { None, Some(Supplied[2]) },
      no_cache : BOOLEAN ]

---------------------------------------------------------------------------
(* requests / requests_cache *)

EmptyCache == [ forecast |-> [ l \in Locs |-> None ],
                search |-> [ c \in Cities |-> None ] ]

\* a stored response is replayed until its expiry time is reached
Fresh(entry) == entry # None /\ now < Val(entry)

\* requests_cache stores the responses with an allowable code (200)
Storable(r) == r.net = "ok" /\ r.status = HttpOk

\* requests.get(url, params): through the cache once it is installed.  The
\* store keeps expiry times only: a hit replays some storable response.
Served(inst, entry, r, R) ==
    /\ r \in R
    /\ (inst /\ Fresh(entry)) => Storable(r)

Stored(inst, entry, r) == inst /\ ~Fresh(entry) /\ Storable(r)

NoGet == [ issued |-> FALSE, use_cache |-> FALSE, hit |-> FALSE, stored |-> FALSE ]

---------------------------------------------------------------------------
(* fetch_daily_mean_temperature *)

NoOutcome == [ ret |-> None, exc |-> "none" ]
Raise(e) == [ ret |-> None, exc |-> e ]
Return(v) == [ ret |-> Some(v), exc |-> "none" ]

\* if not tmax or not tmin or not dates
NoDailyDataIgnoringDates(tmax, tmin, dates) == Falsy(tmax) \/ Falsy(tmin)
NoDailyDataAll(tmax, tmin, dates) == Falsy(tmax) /\ Falsy(tmin) /\ Falsy(dates)
NoDailyDataNoneOnly(tmax, tmin, dates) ==
    FalsyNoneOnly(tmax) \/ FalsyNoneOnly(tmin) \/ FalsyNoneOnly(dates)
NoDailyData(tmax, tmin, dates) == Falsy(tmax) \/ Falsy(tmin) \/ Falsy(dates)

\* the pairs zip(tmax, tmin) yields: as many as the shorter list has
ZipLen(mx, mn) == Min(Len(mx), Len(mn))

\* [float((mx + mn) / 2.0) for mx, mn in zip(tmax, tmin)]
DailyMeansOfMax(mx, mn) == [ i \in 1..ZipLen(mx, mn) |-> Val(mx[i]) ]
DailyMeansDropLast(mx, mn) ==
    [ i \in 1..(ZipLen(mx, mn) - 1) |-> (Val(mx[i]) + Val(mn[i])) \div 2 ]
DailyMeans(mx, mn) ==
    [ i \in 1..ZipLen(mx, mn) |-> (Val(mx[i]) + Val(mn[i])) \div 2 ]

\* mx + mn with a null operand raises TypeError
NullPair(mx, mn) ==
    \E i \in 1..ZipLen(mx, mn) : mx[i] = None \/ mn[i] = None

\* the function from the response of its GET on
fetch_daily_mean_temperature(r) ==
    IF r.net # "ok" THEN Raise("ConnectionError")
    ELSE IF r.status # HttpOk THEN Raise(RequestFailed)
    ELSE IF ~r.json THEN Raise("JSONDecodeError")
    ELSE IF NoDailyData(r.tmax, r.tmin, r.time) THEN Raise(MissingData)
    \* zip(None, ...) and list(None) raise TypeError
    ELSE IF r.tmax = None \/ r.tmin = None \/ r.time = None THEN Raise("TypeError")
    ELSE IF NullPair(Val(r.tmax), Val(r.tmin)) THEN Raise("TypeError")
    ELSE Return([ means |-> DailyMeans(Val(r.tmax), Val(r.tmin)),
                  tmax |-> Val(r.tmax),
                  tmin |-> Val(r.tmin),
                  dates |-> Val(r.time) ])

---------------------------------------------------------------------------
(* geocode_city *)

geocode_city_default(g) ==
    IF g.net # "ok" THEN [ exc |-> "ConnectionError", result |-> None ]
    ELSE IF g.status # HttpOk THEN [ exc |-> GeocodeFailed, result |-> None ]
    ELSE IF Falsy(g.results) THEN [ exc |-> "none", result |-> Some(Supplied) ]
    ELSE [ exc |-> "none", result |-> Some(Val(g.results)[1]) ]

geocode_city(g) ==
    IF g.net # "ok" THEN [ exc |-> "ConnectionError", result |-> None ]
    ELSE IF g.status # HttpOk THEN [ exc |-> GeocodeFailed, result |-> None ]
    ELSE IF Falsy(g.results) THEN [ exc |-> NoResults, result |-> None ]
    ELSE [ exc |-> "none", result |-> Some(Val(g.results)[1]) ]

---------------------------------------------------------------------------
(* compute_stats *)

RECURSIVE SumSeq(_)
SumSeq(s) == IF s = << >> THEN 0 ELSE Head(s) + SumSeq(Tail(s))

Elems(s) == { s[i] : i \in 1..Len(s) }
MaxOf(s) == CHOOSE x \in Elems(s) : \A y \in Elems(s) : y <= x
MinOf(s) == CHOOSE x \in Elems(s) : \A y \in Elems(s) : x <= y

\* arr > 20
Above20OrEqual(t) == t >= Threshold
Above20(t) == t > Threshold

\* int((arr > 20).sum())
RECURSIVE DaysAbove(_)
DaysAbove(s) ==
    IF s = << >> THEN 0
    ELSE (IF Above20(Head(s)) THEN 1 ELSE 0) + DaysAbove(Tail(s))

\* (arr * 9 / 5) + 32, in tenths of a degree
Fahrenheit(t) == (t * 9) \div 5 + 320

\* average_c is the quotient sum / n, kept as the pair
compute_stats(temps) ==
    [ highest_c |-> MaxOf(temps),
      lowest_c |-> MinOf(temps),
      average_c |-> [ sum |-> SumSeq(temps), n |-> Len(temps) ],
      fahrenheit |-> [ i \in 1..Len(temps) |-> Fahrenheit(temps[i]) ],
      days_above_20c |-> DaysAbove(temps),
      count |-> Len(temps) ]

---------------------------------------------------------------------------
(* main *)

NoArgs == [ city |-> None, lat |-> None, lon |-> None, no_cache |-> FALSE ]

\* resolve location: priority city -> lat/lon -> interactive prompt
LocationBranch(a) ==
    IF TruthyStr(a.city) THEN "city"
    ELSE IF a.lat # None /\ a.lon # None THEN "latlon"
    ELSE "prompt"

\* the exceptions of the model; every one is a subclass of Exception
Exceptions ==
    { "ConnectionError", RequestFailed, "JSONDecodeError", MissingData, "TypeError" }

\* except Exception as e
CaughtRuntimeErrorOnly(e) == e \in { RequestFailed, MissingData }
Caught(e) == e \in Exceptions

HasNull(s) == \E i \in 1..Len(s) : s[i] = None

ReportLines ==
    << "Dates", "Daily max (C)", "Daily min (C)", "Highest Temperature (C)",
       "Lowest Temperature (C)", "Average Temperature (C)",
       "Temperatures in Fahrenheit", "Number of days with Temperature above 20C" >>

\* print("Error fetching temperatures:", e, file=sys.stderr)
FetchError == << "Error fetching temperatures" >>
\* print("No temperature points returned.")
NoDataLine == << "No temperature points returned." >>

Outcome(st, ra, out, err, s) ==
    [ status |-> st, raised |-> ra, stdout |-> out, stderr |-> err, stats |-> s ]

\* lines 123-134: the statistics and the report
Report(v) ==
    LET s == Some(compute_stats(v.means))
    IN  IF v.dates = << >> THEN Outcome(None, "IndexError", << >>, << >>, s)
        ELSE IF HasNull(v.tmax)
             THEN Outcome(None, "TypeError", SubSeq(ReportLines, 1, 1), << >>, s)
        ELSE IF HasNull(v.tmin)
             THEN Outcome(None, "TypeError", SubSeq(ReportLines, 1, 2), << >>, s)
        ELSE Outcome(Some(0), "none", ReportLines, << >>, s)

\* lines 113-134: main from the return or raise of the fetch on
MainTail(o) ==
    IF o.exc # "none"
    THEN IF Caught(o.exc)
         THEN Outcome(Some(2), "none", << >>, FetchError, None)
         ELSE Outcome(None, o.exc, << >>, << >>, None)
    ELSE IF Len(Val(o.ret).means) = 0
         THEN Outcome(Some(1), "none", NoDataLine, << >>, None)
         ELSE Report(Val(o.ret))

---------------------------------------------------------------------------
(* The state machine *)

Init ==
    /\ pc = "idle"
    /\ args = NoArgs
    /\ geo = None
    /\ loc = None
    /\ resp = None
    /\ ret = None
    /\ exc = "none"
    /\ stats = None
    /\ status = None
    /\ raised = "none"
    /\ stdout = << >>
    /\ stderr = << >>
    /\ installed = FALSE
    /\ cache = EmptyCache
    /\ now = 0
    /\ lastGet = NoGet

\* lines 92-101: main(argv) is entered and the arguments are parsed
MainStart ==
    /\ pc \in { "idle", "exited" }
    /\ \E a \in ArgSets : args' = a
    /\ pc' = "resolve"
    /\ geo' = None
    /\ loc' = None
    /\ resp' = None
    /\ ret' = None
    /\ exc' = "none"
    /\ stats' = None
    /\ status' = None
    /\ raised' = "none"
    /\ stdout' = << >>
    /\ stderr' = << >>
    /\ lastGet' = NoGet
    /\ UNCHANGED << installed, cache, now >>

\* lines 103-111: the location is resolved; a geocoding failure leaves main
MainResolve ==
    /\ pc = "resolve"
    /\ IF LocationBranch(args) = "latlon"
       THEN /\ loc' = Some(<< Val(args.lat), Val(args.lon) >>)
            /\ pc' = "fetch"
            /\ UNCHANGED << geo, raised, cache >>
       ELSE \E c \in (IF LocationBranch(args) = "city" THEN { Val(args.city) } ELSE Cities) :
            \E g \in GeoResponses :
              LET o == geocode_city(g)
              IN  /\ Served(installed, cache.search[c], g, GeoResponses)
                  /\ geo' = Some([ city |-> c, resp |-> g, exc |-> o.exc, result |-> o.result ])
                  /\ cache' = IF Stored(installed, cache.search[c], g)
                              THEN [ cache EXCEPT !.search[c] = Some(now + ExpireAfter) ]
                              ELSE cache
                  /\ loc' = o.result
                  /\ raised' = o.exc
                  /\ pc' = IF o.exc = "none" THEN "fetch" ELSE "exited"
    /\ UNCHANGED << args, resp, ret, exc, stats, status, stdout, stderr,
                    installed, now, lastGet >>

\* lines 29-54 as far as the state of the process goes: the cache is
\* installed if use_cache, and the GET is served
WeatherGet(l, use_cache, r, R) ==
    LET inst == installed \/ use_cache
        entry == cache.forecast[l]
    IN  /\ Served(inst, entry, r, R)
        /\ installed' = inst
        /\ cache' = IF Stored(inst, entry, r)
                    THEN [ cache EXCEPT !.forecast[l] = Some(now + ExpireAfter) ]
                    ELSE cache
        /\ lastGet' = [ issued |-> TRUE, use_cache |-> use_cache,
                        hit |-> inst /\ Fresh(entry),
                        stored |-> Stored(inst, entry, r) ]
        /\ resp' = Some(r)
        /\ ret' = fetch_daily_mean_temperature(r).ret
        /\ exc' = fetch_daily_mean_temperature(r).exc

\* lines 113-134: the fetch, the empty check, the statistics and the report
MainFetch ==
    /\ pc = "fetch"
    /\ \E r \in MainResponses :
         LET m == MainTail(fetch_daily_mean_temperature(r))
         IN  /\ WeatherGet(Val(loc), ~args.no_cache, r, MainResponses)
             /\ stats' = m.stats
             /\ status' = m.status
             /\ raised' = m.raised
             /\ stdout' = m.stdout
             /\ stderr' = m.stderr
    /\ pc' = "exited"
    /\ UNCHANGED << args, geo, loc, now >>

\* time passes between two runs: one expiry window
Tick ==
    /\ pc \in { "idle", "exited" }
    /\ now < MaxTicks * ExpireAfter
    /\ now' = now + ExpireAfter
    /\ UNCHANGED << pc, args, geo, loc, resp, ret, exc, stats, status, raised,
                    stdout, stderr, installed, cache, lastGet >>

Next == MainStart \/ MainResolve \/ MainFetch \/ Tick

Spec == Init /\ [][Next]_vars

\* fetch_daily_mean_temperature called directly by a fresh process, with any
\* response of the bound
DirectFetch ==
    /\ pc = "idle"
    /\ \E use_cache \in BOOLEAN : \E r \in Responses(MaxLen) :
         WeatherGet(Supplied, use_cache, r, Responses(MaxLen))
    /\ loc' = Some(Supplied)
    /\ stats' = None
    /\ pc' = "returned"
    /\ UNCHANGED << args, geo, status, raised, stdout, stderr, now >>

\* compute_stats called on the series a fetch returned, as main calls it
DirectStats ==
    /\ pc = "returned"
    /\ ret # None
    /\ Val(ret).means # << >>
    /\ stats' = Some(compute_stats(Val(ret).means))
    /\ pc' = "stats"
    /\ UNCHANGED << args, geo, loc, resp, ret, exc, status, raised, stdout, stderr,
                    installed, cache, now, lastGet >>

NextFetch == DirectFetch \/ DirectStats

SpecFetch == Init /\ [][NextFetch]_vars

---------------------------------------------------------------------------
(* Properties of main (specification Spec) *)

\* C1: once the location is resolved, every failure of the weather fetch is
\* caught: the error goes to stderr, main returns 2, and neither
\* compute_stats nor the report is reached.
C1_FetchFailureCaught ==
    (pc = "exited" /\ lastGet.issued /\ exc # "none")
        => /\ status = Some(2)
           /\ raised = "none"
           /\ stderr = FetchError
           /\ stdout = << >>
           /\ stats = None

\* a failure that is not one of the two RuntimeErrors of the fetch was caught
C1_Witness ==
    /\ pc = "exited"
    /\ exc \in { "TypeError", "JSONDecodeError", "ConnectionError" }
    /\ status = Some(2)

\* the weather endpoint answered 200 with empty max and min arrays
EmptyArrays200 ==
    /\ resp # None
    /\ Val(resp).net = "ok"
    /\ Val(resp).status = HttpOk
    /\ Val(resp).json
    /\ Val(resp).tmax = Some(<< >>)
    /\ Val(resp).tmin = Some(<< >>)

\* C2 as stated: a 200 answer with empty max / min arrays makes main report
\* "no data" and return 1, without calling compute_stats.
C2_EmptyArraysExitOne ==
    (pc = "exited" /\ EmptyArrays200)
        => /\ status = Some(1)
           /\ stdout = NoDataLine
           /\ stats = None

\* C2 amended: a 200 answer with empty max / min arrays makes the fetch raise
\* its missing-data error, which main catches: the error goes to stderr and
\* main returns 2, without calling compute_stats.
C2_EmptyArraysExitTwo ==
    (pc = "exited" /\ EmptyArrays200)
        => /\ exc = MissingData
           /\ status = Some(2)
           /\ stderr = FetchError
           /\ stdout = << >>
           /\ stats = None

C2_Witness ==
    /\ pc = "exited"
    /\ EmptyArrays200
    /\ Val(resp).time = Some(<< 1, 2 >>)
    /\ status = Some(2)

\* C3: whenever --city is given (any string, the empty one included) together
\* with --lat and --lon, the location passed to the weather fetch is the
\* geocoded result for the city and never the supplied latitude/longitude.
C3_CityPriority ==
    (lastGet.issued /\ args.city # None /\ args.lat # None /\ args.lon # None)
        => /\ geo # None
           /\ Val(geo).city = Val(args.city)
           /\ loc = Val(geo).result
           /\ loc # Some(<< Val(args.lat), Val(args.lon) >>)

\* the geocoding endpoint did not answer 200 with at least one result
GeocodingFails(g) == g.net # "ok" \/ g.status # HttpOk \/ Falsy(g.results)

\* C4: a geocoding failure during location resolution aborts main before any
\* request to the weather endpoint, and leaves main as an uncaught failure,
\* not as exit status 0, 1 or 2.
C4_GeocodeFailureAborts ==
    (geo # None /\ GeocodingFails(Val(geo).resp))
        => /\ pc = "exited"
           /\ ~lastGet.issued
           /\ resp = None
           /\ status = None
           /\ raised \in { GeocodeFailed, NoResults, "ConnectionError" }
           /\ stdout = << >>
           /\ stderr = << >>

C4_Witness ==
    /\ pc = "exited"
    /\ geo # None
    /\ Val(geo).resp.status = HttpOk
    /\ Val(geo).resp.results = Some(<< >>)
    /\ raised = NoResults

\* C6: with use_cache false the GET of the weather fetch is neither served
\* from nor written to the cache, whatever calls came before in the process.
C6_NoCacheBypasses ==
    (lastGet.issued /\ ~lastGet.use_cache)
        => (~lastGet.hit /\ ~lastGet.stored)

\* C10: when the fetch returns normally its four sequences are all non-empty;
\* so compute_stats is only called on a non-empty series and dates[0] and
\* dates[-1] of the report are defined.
C10_ReturnedSeriesNonEmpty ==
    /\ ret # None
         => /\ Val(ret).means # << >>
            /\ Val(ret).tmax # << >>
            /\ Val(ret).tmin # << >>
            /\ Val(ret).dates # << >>
    /\ stats # None
         => /\ ret # None
            /\ Val(ret).means # << >>
            /\ Val(stats).count >= 1
    /\ raised # "IndexError"

C10_Witness ==
    /\ pc = "exited"
    /\ ret # None
    /\ stats # None
    /\ status = Some(0)
    /\ stdout = ReportLines

---------------------------------------------------------------------------
(* Properties of the functions (specification SpecFetch) *)

\* the call returned normally, on a 200 response carrying the three arrays
Returned ==
    /\ ret # None
    /\ resp # None
    /\ Val(resp).tmax # None
    /\ Val(resp).tmin # None
    /\ Val(resp).time # None

LenMax == Len(Val(Val(resp).tmax))
LenMin == Len(Val(Val(resp).tmin))
LenTime == Len(Val(Val(resp).time))

\* C5 as stated: the four returned sequences have identical length, whatever
\* the lengths of the three arrays of the response.
C5_SameLengthAlways ==
    ret # None
        => /\ Len(Val(ret).means) = Len(Val(ret).tmax)
           /\ Len(Val(ret).tmax) = Len(Val(ret).tmin)
           /\ Len(Val(ret).tmin) = Len(Val(ret).dates)

\* C5 amended: the returned max, min and date sequences have the lengths of
\* the arrays of the response and the mean series that of the shorter of max
\* and min; the four have identical length exactly when the three arrays of
\* the response have equal length.
C5_SameLengthWhenAligned ==
    ret # None
        => /\ Returned
           /\ Len(Val(ret).tmax) = LenMax
           /\ Len(Val(ret).tmin) = LenMin
           /\ Len(Val(ret).dates) = LenTime
           /\ Len(Val(ret).means) = Min(LenMax, LenMin)
           /\ (LenMax = LenMin /\ LenMin = LenTime)
                <=> /\ Len(Val(ret).means) = Len(Val(ret).tmax)
                    /\ Len(Val(ret).tmax) = Len(Val(ret).tmin)
                    /\ Len(Val(ret).tmin) = Len(Val(ret).dates)

C5_Witness ==
    /\ Returned
    /\ LenMax = MaxLen
    /\ LenMin = MaxLen
    /\ LenTime = MaxLen
    /\ Len(Val(ret).means) = MaxLen

\* a 200 JSON response that lacks one of the three series, or whose max or
\* min series is empty
LacksSeries(r) ==
    /\ r.net = "ok"
    /\ r.status = HttpOk
    /\ r.json
    /\ \/ r.tmax = None
       \/ r.tmin = None
       \/ r.time = None
       \/ r.tmax = Some(<< >>)
       \/ r.tmin = Some(<< >>)

C8_MeanOfMaxAndMin ==
    (Returned /\ LenMax = LenMin /\ LenMax >= 1)
        => /\ Len(Val(ret).means) = LenMax
           /\ \A i \in 1..LenMax :
                2 * Val(ret).means[i]
                    = Val(Val(Val(resp).tmax)[i]) + Val(Val(Val(resp).tmin)[i])

C8_Witness ==
    /\ Returned
    /\ Val(Val(resp).tmax) = << Some(210), Some(190) >>
    /\ Val(Val(resp).tmin) = << Some(190), Some(190) >>
    /\ Val(ret).means = << 200, 190 >>

\* C9: compute_stats returns days_above_20c = the number of elements
\* strictly greater than 20.0 (one of exactly 20.0 is not counted) and
\* count = the length of the series, so 0 <= days_above_20c <= count.
C9_DaysAbove20 ==
    stats # None
        => LET temps == Val(ret).means
               above == { i \in 1..Len(temps) : temps[i] > 200 }
           IN  /\ temps # << >>
               /\ Val(stats).days_above_20c = Cardinality(above)
               /\ Val(stats).count = Len(temps)
               /\ 0 <= Val(stats).days_above_20c
               /\ Val(stats).days_above_20c <= Val(stats).count

C9_Witness ==
    /\ stats # None
    /\ Val(ret).means = << 200, 210 >>
    /\ Val(stats).days_above_20c = 1
    /\ Val(stats).count = 2

===========================================================================
